---- MODULE Spec2Model ----
(***************************************************************************)
(* Model of the PhysioLOG-4 driver node (timeflux_pl4/nodes/driver.py):    *)
(* the update() cycle, the read() synchronizer, the parse() decoder and    *)
(* the FTDI receive queue they read from.                                  *)
(*                                                                         *)
(* Python sequences are 0-based; the model keeps 0-based offsets in the    *)
(* names index/start/stop and adds 1 when it subscripts a TLA+ sequence.   *)
(***************************************************************************)
EXTENDS Integers, Sequences, FiniteSets, TLC

(* ------------------------------ constants ------------------------------ *)

HEADER == 170
PACKET_SIZE == 37

\* np.timedelta64(int(1e9 / 1024), 'ns') and np.timedelta64(int(1e9 / 256), 'ns')
TimeDelta1024 == 1000000000 \div 1024
TimeDelta256 == 1000000000 \div 256

(* ------------------------------- bounds -------------------------------- *)

\* number of segments the device delivers during a run
MaxSends == 2

(* ------------------------- the acquisition clock ----------------------- *)

\* self.packet_count: packets decoded since the start of the acquisition
VARIABLE packet_count

(* --------------------------- byte sequences ---------------------------- *)

RECURSIVE SumBytes(_)
\* checksum = 0; for byte in data: checksum += byte
SumBytes(data) ==
    IF data = << >> THEN 0 ELSE Head(data) + SumBytes(Tail(data))

\* data[start:stop] of Python: clipped to the length of data
Slice(data, start, stop) ==
    LET hi == IF stop < Len(data) THEN stop ELSE Len(data)
    IN  IF start >= hi THEN << >> ELSE SubSeq(data, start + 1, hi)

RECURSIVE Unsigned(_)
\* big-endian unsigned value of a byte sequence
Unsigned(bs) ==
    IF bs = << >> THEN 0
    ELSE Unsigned(SubSeq(bs, 1, Len(bs) - 1)) * 256 + bs[Len(bs)]

RECURSIVE Pow256(_)
Pow256(k) == IF k = 0 THEN 1 ELSE 256 * Pow256(k - 1)

\* mutant: signed=True is left out
FromBytesSigned_Unsigned(bs) == Unsigned(bs)

\* int.from_bytes(bs, byteorder='big', signed=True)
FromBytesSigned(bs) ==
    IF bs = << >> THEN 0
    ELSE IF bs[1] >= 128 THEN Unsigned(bs) - Pow256(Len(bs)) ELSE Unsigned(bs)

(* -------------------------------- parse -------------------------------- *)

\* channels = ['1', '2', '3', '1', '2', '1', '2', '4', '1', '2']
channels == << "1", "2", "3", "1", "2", "1", "2", "4", "1", "2" >>

\* adc: the LSB factor of each channel; the factor is negative, its magnitude
\* is kept as the literal of the source
adc == [ c \in {"1", "2", "3", "4"} |->
           IF c \in {"1", "2"} THEN "-0.01184481006" ELSE "-0.000244140625" ]

\* int.from_bytes(...) * adc[channel]: the signed raw value times a negative
\* factor, kept exact as (raw LSB count, factor)
Scaled(raw, channel) == [ lsb |-> raw, factor |-> adc[channel] ]

\* the sample decoded from slot index (0..9) of data
SlotSample(data, index) ==
    LET start == 2 * index + index + 2
        stop  == start + 3
    IN  Scaled(FromBytesSigned(Slice(data, start, stop)), channels[index + 1])

RECURSIVE SamplesOf(_, _, _)
\* samples[channel] after the loop over enumerate(channels), from slot index on
SamplesOf(data, channel, index) ==
    IF index >= Len(channels) THEN << >>
    ELSE (IF channels[index + 1] = channel
            THEN << SlotSample(data, index) >> ELSE << >>)
         \o SamplesOf(data, channel, index + 1)

\* mutant: the frame is accepted on its header byte, the sum is not looked at
ChecksumOk_HeaderOnly(data) == data # << >> /\ data[1] = HEADER

\* mutant: the sum is compared with 0 without the reduction modulo 256
ChecksumOk_NoModulo(data) == SumBytes(data) = 0

\* (checksum % 256) != 0  ->  raise InvalidChecksumException
ChecksumOk(data) == SumBytes(data) % 256 = 0

\* mutant: the decoder reports its own rolling count of packets instead of
\* the counter byte of the frame
parse_OwnCounter(data) ==
    IF ~ChecksumOk(data)
      THEN [ ok |-> FALSE, counter |-> -1, samples |-> << >> ]
      ELSE [ ok |-> TRUE,
             counter |-> packet_count % 256,
             samples |-> [ c \in {"1", "2", "3", "4"} |-> SamplesOf(data, c, 0) ] ]

\* parse(data): ok = FALSE stands for InvalidChecksumException
parse(data) ==
    IF ~ChecksumOk(data)
      THEN [ ok |-> FALSE, counter |-> -1, samples |-> << >> ]
      ELSE [ ok |-> TRUE,
             counter |-> data[2],
             samples |-> [ c \in {"1", "2", "3", "4"} |-> SamplesOf(data, c, 0) ] ]

(* -------------------------------- read --------------------------------- *)

\* mutant: the search keeps the last header byte of the window
FirstHeader_Last(data) ==
    LET hits == { k \in 0 .. Len(data) - 1 : data[k + 1] = HEADER }
    IN  IF hits = {} THEN -1
        ELSE CHOOSE k \in hits : \A j \in hits : k >= j

\* for index, byte in enumerate(data): if byte == HEADER: the first such
\* index (0-based), or -1 when the loop ends without a match
FirstHeader(data) ==
    LET hits == { k \in 0 .. Len(data) - 1 : data[k + 1] = HEADER }
    IN  IF hits = {} THEN -1
        ELSE CHOOSE k \in hits : \A j \in hits : k <= j

\* device.read(n) on a receive queue q: the n first bytes, or on a timeout
\* the bytes that are there
DeviceRead(q, n) == Slice(q, 0, n)
DeviceRest(q, n) == Slice(q, n, Len(q))

(* ------------------------- the device's stream ------------------------- *)

\* a signed 24-bit value as 3 big-endian two's-complement bytes
ToBytes3(v) ==
    LET u == IF v < 0 THEN v + Pow256(3) ELSE v
    IN  << u \div 65536, (u \div 256) % 256, u % 256 >>

RECURSIVE SlotBytes(_, _)
\* the 30 bytes of slots index..9 of a payload (a function 0..9 -> raw value)
SlotBytes(payload, index) ==
    IF index >= Len(channels) THEN << >>
    ELSE ToBytes3(payload[index]) \o SlotBytes(payload, index + 1)

\* the byte that makes the sum of body ++ <<byte>> a multiple of 256
ChecksumByte(body) == (256 - (SumBytes(body) % 256)) % 256

\* a frame as the device sends it: header, counter, 10 slots, 4 trailing
\* bytes, and a last byte that brings the byte sum to 0 modulo 256
Frame(counter, payload) ==
    LET body == << HEADER, counter >> \o SlotBytes(payload, 0) \o << 0, 0, 0, 0 >>
    IN  body \o << ChecksumByte(body) >>

\* payloads: PayloadA has positive raw values and a byte equal to HEADER in
\* slot 0; PayloadB has negative raw values
PayloadA == [ j \in 0 .. 9 |-> 170 + j ]
PayloadB == [ j \in 0 .. 9 |-> 0 - (j + 1) ]

ValidFrames == { Frame(10, PayloadA), Frame(11, PayloadB), Frame(12, PayloadA) }

\* a frame hit by a content error: one byte changed, the sum no longer 0
Corrupt(frame) ==
    [ frame EXCEPT ![PACKET_SIZE] = (frame[PACKET_SIZE] + 1) % 256 ]

\* k bytes none of which is the header marker
Garbage(k) == [ j \in 1 .. k |-> 86 ]

\* garbage whose first byte is not the marker but which holds a marker
GarbageWithMarker == << 86, HEADER >>

\* lengths of the garbage runs: the shortest ones and the longest one that
\* still leaves a marker in the window
GarbageLens == { 1, 2, PACKET_SIZE - 1 }

\* three back-to-back valid frames, counters 10, 11, 12
Burst == Frame(10, PayloadA) \o Frame(11, PayloadB) \o Frame(12, PayloadA)

\* a checksum-corrupted frame between two valid frames
Sandwich ==
    Frame(10, PayloadA) \o Corrupt(Frame(11, PayloadB)) \o Frame(12, PayloadA)

\* what the device may append to the receive queue in one delivery: frames,
\* bursts of frames, garbage, and a frame that lost its last 17 bytes
Segments ==
    ValidFrames
    \cup { Burst, Sandwich, Corrupt(Frame(11, PayloadB)) }
    \cup { Garbage(k) : k \in GarbageLens }
    \cup { GarbageWithMarker, Garbage(PACKET_SIZE) }
    \cup { Slice(Frame(12, PayloadA), 0, 20) }

(* -------------------------------- state -------------------------------- *)

VARIABLES
    buffer,        \* the device's receive queue: bytes delivered, not yet read
    sends,         \* number of deliveries of the device so far
    pc,            \* where update() is: idle, read, refill, parse, output, raised
    queue,         \* queue = self.device.getQueueStatus() of the current cycle
    i,             \* the loop variable of update()
    data,          \* the data containers of the current cycle
    window,        \* read(): the bytes of the first device.read
    extra,         \* read(): the bytes of the second device.read
    packet,        \* update(): the packet returned by read()
    time_start,    \* self.time_start
    o_1024hz,      \* output port: the batch set in this cycle, or NoBatch
    o_256hz,       \* output port: the batch set in this cycle, or NoBatch
    requested,     \* bytes requested from the transport in the current cycle
    short,         \* a device.read of the current read() returned fewer bytes
    history,       \* every packet update() passed to parse(), oldest first
    cycle_mark,    \* Len(history) when the current cycle began
    misses,        \* read() calls of the current cycle that returned False
    emitted        \* the timestamps set on each port so far, oldest first

vars == << buffer, sends, pc, queue, i, data, window, extra, packet,
           packet_count,
           time_start, o_1024hz, o_256hz, requested, short, history,
           cycle_mark, misses, emitted >>

NoBatch == [ set |-> FALSE ]

\* data = { '1024Hz': {...}, '256Hz': {...} } with empty lists
EmptyData ==
    [ hi |-> [ counter |-> << >>, c1 |-> << >>, c2 |-> << >>, index |-> << >> ],
      lo |-> [ counter |-> << >>, c3 |-> << >>, c4 |-> << >>, index |-> << >> ] ]

\* ceil(queue / PACKET_SIZE)
Iterations(q) == (q + PACKET_SIZE - 1) \div PACKET_SIZE

\* self.time_start = now(): the epochs (ns) a run may start at
TimeStarts == { 0, 1000 }

Init ==
    /\ buffer = << >>
    /\ sends = 0
    /\ pc = "idle"
    /\ queue = 0
    /\ i = 0
    /\ data = EmptyData
    /\ window = << >>
    /\ extra = << >>
    /\ packet = << >>
    /\ packet_count = 0
    /\ time_start \in TimeStarts
    /\ o_1024hz = NoBatch
    /\ o_256hz = NoBatch
    /\ requested = 0
    /\ short = FALSE
    /\ history = << >>
    /\ cycle_mark = 0
    /\ misses = 0
    /\ emitted = [ hi |-> << >>, lo |-> << >> ]

(* ------------------------------- update -------------------------------- *)

\* np.arange(start, stop, step): start, start + step, ... below stop
Arange(start, stop, step) ==
    [ k \in 1 .. ((stop - start) + step - 1) \div step |-> start + (k - 1) * step ]

\* start = self.time_start + self.time_delta['256Hz'] * self.packet_count
LowStart(count) == time_start + TimeDelta256 * count

\* mutant: the factor 4 (samples per packet) is left out
HighStart_NoTimes4(count) == time_start + TimeDelta1024 * count

\* start = self.time_start + self.time_delta['1024Hz'] * self.packet_count * 4
HighStart(count) == time_start + TimeDelta1024 * count * 4

\* timestamps = list(np.arange(start, stop, self.time_delta['1024Hz']))
HighTimestamps(count) ==
    LET start == HighStart(count)
        stop  == start + TimeDelta1024 * 4
    IN  Arange(start, stop, TimeDelta1024)

\* mutant: the counter is appended once to the 1024 Hz container, not 4 times
Accumulate_CounterOnce(d, counter, samples, count) ==
    [ hi |-> [ counter |-> Append(d.hi.counter, counter),
               c1      |-> d.hi.c1 \o samples["1"],
               c2      |-> d.hi.c2 \o samples["2"],
               index   |-> d.hi.index \o HighTimestamps(count) ],
      lo |-> [ counter |-> Append(d.lo.counter, counter),
               c3      |-> d.lo.c3 \o samples["3"],
               c4      |-> d.lo.c4 \o samples["4"],
               index   |-> Append(d.lo.index, LowStart(count)) ] ]

\* the data containers after the appends of one parsed packet; count is
\* self.packet_count after its increment
Accumulate(d, counter, samples, count) ==
    [ hi |-> [ counter |-> d.hi.counter \o << counter, counter, counter, counter >>,
               c1      |-> d.hi.c1 \o samples["1"],
               c2      |-> d.hi.c2 \o samples["2"],
               index   |-> d.hi.index \o HighTimestamps(count) ],
      lo |-> [ counter |-> Append(d.lo.counter, counter),
               c3      |-> d.lo.c3 \o samples["3"],
               c4      |-> d.lo.c4 \o samples["4"],
               index   |-> Append(d.lo.index, LowStart(count)) ] ]

\* the end of one pass of `for i in range(ceil(queue / PACKET_SIZE))`
NextIteration ==
    /\ i' = i + 1
    /\ pc' = IF i + 1 < Iterations(queue) THEN "read" ELSE "output"

\* mutant: a window without a marker ends the cycle on the spot, nothing is
\* set on the ports
MissedWindow_Abort ==
    /\ packet' = << >>
    /\ misses' = misses + 1
    /\ i' = i + 1
    /\ pc' = "idle"

\* read() returns False (no header byte in the window): `if packet:` skips
\* the body and the loop goes to its next pass
MissedWindow ==
    /\ packet' = << >>
    /\ misses' = misses + 1
    /\ NextIteration

\* mutant: the cycle starts its packet count again from 0
UpdateBegin_ResetsCount ==
    /\ pc = "idle"
    /\ queue' = Len(buffer)
    /\ data' = EmptyData
    /\ i' = 0
    /\ pc' = IF Iterations(Len(buffer)) > 0 THEN "read" ELSE "idle"
    /\ o_1024hz' = NoBatch
    /\ o_256hz' = NoBatch
    /\ window' = << >>
    /\ extra' = << >>
    /\ packet' = << >>
    /\ requested' = 0
    /\ short' = FALSE
    /\ cycle_mark' = Len(history)
    /\ misses' = 0
    /\ packet_count' = 0
    /\ UNCHANGED << buffer, sends, time_start, history, emitted >>

\* update(), up to the loop: the queue status and the empty containers. The
\* ports hold nothing at the start of a cycle.
UpdateBegin ==
    /\ pc = "idle"
    /\ queue' = Len(buffer)
    /\ data' = EmptyData
    /\ i' = 0
    /\ pc' = IF Iterations(Len(buffer)) > 0 THEN "read" ELSE "idle"
    /\ o_1024hz' = NoBatch
    /\ o_256hz' = NoBatch
    /\ window' = << >>
    /\ extra' = << >>
    /\ packet' = << >>
    /\ requested' = 0
    /\ short' = FALSE
    /\ cycle_mark' = Len(history)
    /\ misses' = 0
    /\ UNCHANGED << buffer, sends, packet_count, time_start, history, emitted >>

\* read(), first part: data = self.device.read(PACKET_SIZE), the header test
\* and the search for the next header byte. An empty data makes data[0] raise
\* IndexError, which update() does not catch.
ReadWindow ==
    /\ pc = "read"
    /\ LET got == DeviceRead(buffer, PACKET_SIZE)
       IN  /\ buffer' = DeviceRest(buffer, PACKET_SIZE)
           /\ requested' = requested + PACKET_SIZE
           /\ short' = (Len(got) < PACKET_SIZE)
           /\ window' = got
           /\ extra' = << >>
           /\ IF got = << >>
                THEN /\ pc' = "raised"
                     /\ UNCHANGED << i, packet, misses >>
                ELSE IF got[1] = HEADER
                THEN /\ packet' = got
                     /\ pc' = "parse"
                     /\ UNCHANGED << i, misses >>
                ELSE IF FirstHeader(got) >= 0
                THEN /\ pc' = "refill"
                     /\ UNCHANGED << i, packet, misses >>
                ELSE MissedWindow
    /\ UNCHANGED << sends, queue, data, packet_count, time_start, o_1024hz,
                    o_256hz, history, cycle_mark, emitted >>

\* mutant: the second read asks for a whole packet, not for index bytes
Refill_ReadsPacketSize ==
    /\ pc = "refill"
    /\ LET index == FirstHeader(window)
           got   == DeviceRead(buffer, PACKET_SIZE)
       IN  /\ buffer' = DeviceRest(buffer, PACKET_SIZE)
           /\ requested' = requested + PACKET_SIZE
           /\ short' = (short \/ Len(got) < PACKET_SIZE)
           /\ extra' = got
           /\ packet' = Slice(window, index, Len(window)) \o got
    /\ pc' = "parse"
    /\ UNCHANGED << sends, queue, i, data, window, packet_count, time_start,
                    o_1024hz, o_256hz, history, cycle_mark, misses, emitted >>

\* mutant: the window is cut one byte after the header byte
Refill_CutsAfterHeader ==
    /\ pc = "refill"
    /\ LET index == FirstHeader(window)
           got   == DeviceRead(buffer, index + 1)
       IN  /\ buffer' = DeviceRest(buffer, index + 1)
           /\ requested' = requested + index + 1
           /\ short' = (short \/ Len(got) < index + 1)
           /\ extra' = got
           /\ packet' = Slice(window, index + 1, Len(window)) \o got
    /\ pc' = "parse"
    /\ UNCHANGED << sends, queue, i, data, window, packet_count, time_start,
                    o_1024hz, o_256hz, history, cycle_mark, misses, emitted >>

\* read(), second part: data = data[index:] + self.device.read(index)
Refill ==
    /\ pc = "refill"
    /\ LET index == FirstHeader(window)
           got   == DeviceRead(buffer, index)
       IN  /\ buffer' = DeviceRest(buffer, index)
           /\ requested' = requested + index
           /\ short' = (short \/ Len(got) < index)
           /\ extra' = got
           /\ packet' = Slice(window, index, Len(window)) \o got
    /\ pc' = "parse"
    /\ UNCHANGED << sends, queue, i, data, window, packet_count, time_start,
                    o_1024hz, o_256hz, history, cycle_mark, misses, emitted >>

\* update(), the body of `if packet:`: parse, the appends and the timestamps,
\* or the except clause
Parse ==
    /\ pc = "parse"
    /\ LET r == parse(packet)
       IN  IF r.ok
             THEN /\ packet_count' = packet_count + 1
                  /\ data' = Accumulate(data, r.counter, r.samples, packet_count + 1)
             ELSE UNCHANGED << packet_count, data >>
    /\ history' = Append(history, packet)
    /\ NextIteration
    /\ UNCHANGED << buffer, sends, queue, window, extra, packet, time_start, o_1024hz,
                    o_256hz, requested, short, cycle_mark, misses, emitted >>

\* update(), after the loop: if len(data['1024Hz']['index']) > 0: set both
Output ==
    /\ pc = "output"
    /\ IF Len(data.hi.index) > 0
         THEN /\ o_1024hz' = [ set |-> TRUE, batch |-> data.hi ]
              /\ o_256hz' = [ set |-> TRUE, batch |-> data.lo ]
              /\ emitted' = [ hi |-> emitted.hi \o data.hi.index,
                              lo |-> emitted.lo \o data.lo.index ]
         ELSE UNCHANGED << o_1024hz, o_256hz, emitted >>
    /\ pc' = "idle"
    /\ UNCHANGED << buffer, sends, queue, i, data, window, extra, packet, packet_count,
                    time_start, requested, short, history, cycle_mark, misses >>

\* the device delivers one more segment into the receive queue
DeviceSend ==
    /\ sends < MaxSends
    /\ \E seg \in Segments : buffer' = buffer \o seg
    /\ sends' = sends + 1
    /\ UNCHANGED << pc, queue, i, data, window, extra, packet, packet_count, time_start,
                    o_1024hz, o_256hz, requested, short, history, cycle_mark,
                    misses, emitted >>

Next ==
    \/ UpdateBegin
    \/ ReadWindow
    \/ Refill
    \/ Parse
    \/ Output
    \/ DeviceSend

Spec == Init /\ [][Next]_vars

(* ===================== properties of the driver ======================== *)

\* the byte sum of frame is 0 modulo 256, said by its last byte: it is the
\* complement of the sum of the bytes before it
SumsToZero(frame) ==
    /\ frame # << >>
    /\ frame[Len(frame)] = ChecksumByte(SubSeq(frame, 1, Len(frame) - 1))

\* the packets passed to parse() in the current cycle, in order
CycleFrames == SubSeq(history, cycle_mark + 1, Len(history))

\* the sample a raw value of a channel in uV (1, 2) or in mV (3, 4) decodes to
InUV(raw) == [ lsb |-> raw, factor |-> "-0.01184481006" ]
InMV(raw) == [ lsb |-> raw, factor |-> "-0.000244140625" ]

\* the rows a valid frame with counter c and payload p adds to each batch
HighRows(c, p) ==
    [ counter |-> << c, c, c, c >>,
      c1 |-> << InUV(p[0]), InUV(p[3]), InUV(p[5]), InUV(p[8]) >>,
      c2 |-> << InUV(p[1]), InUV(p[4]), InUV(p[6]), InUV(p[9]) >> ]
LowRows(c, p) ==
    [ counter |-> << c >>, c3 |-> << InMV(p[2]) >>, c4 |-> << InMV(p[7]) >> ]

\* C1, the scenario: a cycle that parsed valid frame A, a checksum-corrupted
\* frame and valid frame B has set batches that hold the samples of A and of
\* B, in that order, and nothing of the corrupted frame.
C1_Scenario ==
    (pc = "idle" /\ CycleFrames = << Frame(10, PayloadA),
                                    Corrupt(Frame(11, PayloadB)),
                                    Frame(12, PayloadA) >>)
    => LET a == HighRows(10, PayloadA)
           b == HighRows(12, PayloadA)
           c == LowRows(10, PayloadA)
           d == LowRows(12, PayloadA)
       IN  /\ o_1024hz.set /\ o_256hz.set
           /\ o_1024hz.batch.counter = a.counter \o b.counter
           /\ o_1024hz.batch.c1 = a.c1 \o b.c1
           /\ o_1024hz.batch.c2 = a.c2 \o b.c2
           /\ Len(o_1024hz.batch.index) = 8
           /\ o_256hz.batch.counter = c.counter \o d.counter
           /\ o_256hz.batch.c3 = c.c3 \o d.c3
           /\ o_256hz.batch.c4 = c.c4 \o d.c4
           /\ Len(o_256hz.batch.index) = 2

\* C1, the step: when update() leaves parse() with a frame whose byte sum is
\* not 0 modulo 256, the containers and packet_count are as before, nothing
\* more was read from the stream (no resynchronization), and the loop is at
\* its next pass (the next read of 37 bytes) or, after the last pass, at the
\* output.
C1_Step ==
    (pc = "parse" /\ pc' # "parse" /\ ~SumsToZero(packet))
    => /\ data' = data
       /\ packet_count' = packet_count
       /\ buffer' = buffer
       /\ requested' = requested
       /\ i' = i + 1
       /\ pc' = IF i + 1 < Iterations(queue) THEN "read" ELSE "output"

\* C1: in update(), a frame whose byte sum is not 0 modulo 256 is discarded
\* and nothing else happens: no row, no timestamp, no increment of
\* packet_count, no resynchronization, and the loop goes on; a cycle that
\* reads valid A, a corrupted frame and valid B emits exactly A and B.
C1_CorruptFrameDiscarded == [] C1_Scenario /\ [][C1_Step]_vars

\* C1 witness: a finished cycle that parsed A, the corrupted frame and B and
\* set its batches
C1_Witness ==
    /\ pc = "idle"
    /\ CycleFrames = << Frame(10, PayloadA), Corrupt(Frame(11, PayloadB)),
                        Frame(12, PayloadA) >>
    /\ o_256hz.set
    /\ Len(o_256hz.batch.counter) = 2

\* a packet of the current cycle parsed without a checksum failure
CycleDecoded == { k \in 1 .. Len(CycleFrames) : SumsToZero(CycleFrames[k]) }

\* no byte of w is the header marker
NoMarker(w) == \A k \in 1 .. Len(w) : w[k] # HEADER

\* C2 as stated: once a read() of the cycle has found no marker, nothing more
\* is read or parsed in that cycle and no batch is set in it.
C2_Original ==
    [][(misses > 0 /\ pc # "idle")
         => /\ requested' = requested
            /\ history' = history
            /\ ~o_1024hz'.set /\ ~o_256hz'.set]_vars

\* C2 amended, the step: the read of a non-empty window without a marker
\* leaves the containers, packet_count and the parsed packets as they were,
\* and the loop is at its next pass or, after the last pass, at the output.
C2_Step ==
    (pc = "read" /\ requested' = requested + PACKET_SIZE
       /\ window' # << >> /\ NoMarker(window'))
    => /\ data' = data
       /\ packet_count' = packet_count
       /\ history' = history
       /\ i' = i + 1
       /\ pc' = IF i + 1 < Iterations(queue) THEN "read" ELSE "output"

\* C2 amended, the end of the cycle: a finished cycle that had a window
\* without a marker has set both batches if it decoded a packet, before or
\* after that window, and none if it decoded no packet.
C2_Emit ==
    (pc = "idle" /\ misses > 0)
    => /\ o_1024hz.set = (CycleDecoded # {})
       /\ o_256hz.set = (CycleDecoded # {})
       /\ o_256hz.set => Len(o_256hz.batch.counter) = Cardinality(CycleDecoded)

\* C2 (amended): a window without a header marker is dropped and nothing
\* else: it adds nothing, the loop goes on with the next read, and the cycle
\* emits its batches at its end when it decoded at least one packet.
C2_MissedWindowSkipped == [] C2_Emit /\ [][C2_Step]_vars

\* C2 witness: a finished cycle that dropped a marker-less window and set
\* its batches
C2_Witness ==
    /\ pc = "idle"
    /\ misses > 0
    /\ o_256hz.set
    /\ o_1024hz.set

\* the stream as the current read() found it: the bytes it took from the
\* transport, then the bytes still in the receive queue
StreamAtRead == window \o extra \o buffer

\* the stream at the current read() is k bytes, the first not a marker,
\* followed by a 37-byte frame with a header and a valid checksum
GarbageThenFrame(k) ==
    /\ Len(StreamAtRead) >= k + PACKET_SIZE
    /\ StreamAtRead[1] # HEADER
    /\ StreamAtRead[k + 1] = HEADER
    /\ SumsToZero(SubSeq(StreamAtRead, k + 1, k + PACKET_SIZE))

\* C3 as stated: whatever the garbage bytes after the first are, a read()
\* that got every byte it requested returns exactly the frame that follows
\* the k garbage bytes.
C3_Original ==
    (pc = "parse" /\ ~short)
    => \A k \in 1 .. PACKET_SIZE - 1 :
         GarbageThenFrame(k)
         => packet = SubSeq(StreamAtRead, k + 1, k + PACKET_SIZE)

\* C3 (amended): when the stream at a read() is k garbage bytes (1 <= k <=
\* 36), none of them 0xAA, followed by a checksum-valid 37-byte frame F, and
\* the transport delivers every requested byte, read() returns exactly F and
\* takes exactly the k garbage bytes and F from the stream.
C3_DesyncRecovery ==
    (pc = "parse" /\ ~short)
    => \A k \in 1 .. PACKET_SIZE - 1 :
         (GarbageThenFrame(k) /\ NoMarker(SubSeq(StreamAtRead, 1, k)))
         => /\ packet = SubSeq(StreamAtRead, k + 1, k + PACKET_SIZE)
            /\ window \o extra = SubSeq(StreamAtRead, 1, k + PACKET_SIZE)

\* C3 witness: a read() that found 36 garbage bytes before a valid frame,
\* got every byte and returned
C3_Witness ==
    /\ pc = "parse"
    /\ ~short
    /\ GarbageThenFrame(PACKET_SIZE - 1)
    /\ NoMarker(SubSeq(StreamAtRead, 1, PACKET_SIZE - 1))
    /\ packet \in ValidFrames

\* C4: parse(frame) succeeds if and only if the sum of the bytes of the frame
\* is 0 modulo 256 (its last byte is the complement of the sum of the others);
\* for any other frame it raises InvalidChecksumException and gives neither a
\* counter nor samples; a success gives the counter byte and 4, 4, 1 and 1
\* samples.
C4_ChecksumIff ==
    pc = "parse"
    => LET r == parse(packet)
       IN  /\ r.ok = SumsToZero(packet)
           /\ ~r.ok => (r.counter = -1 /\ r.samples = << >>)
           /\ r.ok => /\ r.counter = packet[2]
                      /\ Len(r.samples["1"]) = 4 /\ Len(r.samples["2"]) = 4
                      /\ Len(r.samples["3"]) = 1 /\ Len(r.samples["4"]) = 1

\* C4 witness: update() is about to parse a frame of the device whose byte
\* sum was built to be 0 modulo 256, and parse accepts it
C4_Witness ==
    /\ pc = "parse"
    /\ packet = Frame(11, PayloadB)
    /\ parse(packet).ok

\* C4 second case reached: a frame with another sum is at parse
C4_WitnessReject ==
    /\ pc = "parse"
    /\ packet = Corrupt(Frame(11, PayloadB))
    /\ ~parse(packet).ok

\* the counter bytes of the decoded packets of the current cycle, in order
CycleCounters ==
    LET ok == SelectSeq(CycleFrames, SumsToZero)
    IN  [ k \in 1 .. Len(ok) |-> ok[k][2] ]

\* c1, c1, c1, c1, ..., cn, cn, cn, cn
Repeat4(cs) == [ k \in 1 .. 4 * Len(cs) |-> cs[((k - 1) \div 4) + 1] ]

\* a 1024 Hz container with rows for the counters cs
HighShape(b, cs) ==
    /\ b.counter = Repeat4(cs)
    /\ Len(b.c1) = 4 * Len(cs)
    /\ Len(b.c2) = 4 * Len(cs)
    /\ Len(b.index) = 4 * Len(cs)

\* a 256 Hz container with rows for the counters cs
LowShape(b, cs) ==
    /\ b.counter = cs
    /\ Len(b.c3) = Len(cs)
    /\ Len(b.c4) = Len(cs)
    /\ Len(b.index) = Len(cs)

\* C5: after the n >= 1 frames a cycle decoded, with counters c1..cn, the
\* 256 Hz batch has n rows with counters c1..cn and the 1024 Hz batch has 4n
\* rows with counters c1 x4, ..., cn x4; every column and the index of a batch
\* have the same length. It holds of the containers during the cycle and of
\* the batches the cycle sets.
C5_BatchShape ==
    /\ pc \in {"read", "refill", "parse", "output"}
         => (HighShape(data.hi, CycleCounters) /\ LowShape(data.lo, CycleCounters))
    /\ (pc = "idle" /\ o_256hz.set)
         => /\ CycleCounters # << >>
            /\ HighShape(o_1024hz.batch, CycleCounters)
            /\ LowShape(o_256hz.batch, CycleCounters)

\* C5 witness: a cycle decoded 3 frames with counters 10, 11, 12 and set a
\* 256 Hz batch of 3 rows and a 1024 Hz batch of 12 rows
C5_Witness ==
    /\ pc = "idle"
    /\ o_256hz.set
    /\ o_256hz.batch.counter = << 10, 11, 12 >>
    /\ Len(o_1024hz.batch.index) = 12

\* C6: a cycle sets both ports or neither, and once the cycle is over (update
\* returned or raised) the ports are set if and only if the cycle decoded at
\* least one packet.
C6_EmitIffDecoded ==
    /\ o_1024hz.set = o_256hz.set
    /\ pc \in {"idle", "raised"} => (o_256hz.set = (CycleDecoded # {}))

\* the low-rate timestamps given out since acquisition start: the ones set on
\* the port, then the ones of the cycle under way
AllLow == emitted.lo \o (IF pc = "idle" THEN << >> ELSE data.lo.index)
AllHigh == emitted.hi \o (IF pc = "idle" THEN << >> ELSE data.hi.index)

\* C7: the j-th packet decoded since acquisition start gets the low-rate
\* timestamp time_start + j*d256 and the high-rate timestamps time_start +
\* 4*j*d1024 + i*d1024, i = 0..3, whatever the cycles, the counter bytes and
\* the frames discarded in between; so both sequences increase strictly with
\* constant spacing, across packets and cycles.
C7_Timestamps ==
    /\ Len(AllLow) = packet_count
    /\ Len(AllHigh) = 4 * packet_count
    /\ \A j \in 1 .. Len(AllLow) : AllLow[j] = time_start + j * TimeDelta256
    /\ \A j \in 1 .. Len(AllLow) : \A k \in 0 .. 3 :
         AllHigh[4 * (j - 1) + k + 1]
           = time_start + 4 * j * TimeDelta1024 + k * TimeDelta1024
    /\ \A j \in 1 .. Len(AllLow) - 1 : AllLow[j + 1] - AllLow[j] = TimeDelta256
    /\ \A j \in 1 .. Len(AllHigh) - 1 : AllHigh[j + 1] - AllHigh[j] = TimeDelta1024
    /\ TimeDelta256 > 0 /\ TimeDelta1024 > 0

\* C7 witness: timestamps were set in an earlier cycle, a frame was discarded
\* since, and the cycle under way has decoded a packet
C7_Witness ==
    /\ emitted.lo # << >>
    /\ pc = "output"
    /\ data.lo.index # << >>
    /\ Len(history) > packet_count

\* C8: for every decoded packet, the 1024 Hz timestamp of the first of its 4
\* samples equals its 256 Hz timestamp, both computed with the integer
\* nanosecond deltas of the code.
C8_StreamsAligned ==
    \A j \in 1 .. Len(AllLow) : AllHigh[4 * (j - 1) + 1] = AllLow[j]

\* C9, the state: packet_count is the number of frames parsed without a
\* checksum failure since acquisition start
C9_Count == packet_count = Len(SelectSeq(history, SumsToZero))

\* C9, the step: packet_count never decreases, it changes only when update()
\* leaves parse() with a frame whose sum is 0 modulo 256, and then by 1; a
\* checksum failure, a window without a marker and the start of a cycle leave
\* it alone; time_start never changes
C9_Step ==
    /\ time_start' = time_start
    /\ packet_count' >= packet_count
    /\ packet_count' # packet_count
         => /\ pc = "parse"
            /\ SumsToZero(packet)
            /\ packet_count' = packet_count + 1
    /\ (pc = "parse" /\ pc' # "parse" /\ SumsToZero(packet))
         => packet_count' = packet_count + 1

\* C9: packet_count starts at 0, grows by exactly 1 for each successfully
\* decoded packet and changes at no other moment; update() neither resets it
\* nor touches time_start; packet_count is at every moment the number of
\* frames parsed successfully since acquisition start.
C9_ClockLifecycle == [] C9_Count /\ [][C9_Step]_vars

\* C9 witness: a second cycle has begun after 2 packets were decoded and a
\* frame was discarded, and the count is still 2
C9_Witness ==
    /\ packet_count = 2
    /\ Len(history) > 2
    /\ cycle_mark = Len(history)
    /\ pc = "read"

\* C10: a cycle never requests more bytes from the transport than the q bytes
\* reported at its start, and when it is over the q mod 37 bytes of a partial
\* frame are still in the receive queue.
C10_WholeFramesOnly ==
    /\ requested <= queue
    /\ pc = "idle" => Len(buffer) >= queue % PACKET_SIZE

\* C11: no error leaves update(): whatever the stream holds and whatever the
\* transport returns (fewer bytes than requested, or none after a timeout),
\* update() is never left by an exception.
C11_NoErrorEscapes == pc # "raised"

\* a frame of the right length whose byte sum is 0 modulo 256
WholeAndValid(frame) == Len(frame) = PACKET_SIZE /\ SumsToZero(frame)

\* C12: a frame whose length is not 37 bytes is never decoded, even when its
\* byte sum is 0 modulo 256: the packets counted and the rows of the cycle
\* are those of the 37-byte frames with a valid checksum only.
C12_ShortFrameRejected ==
    /\ packet_count = Len(SelectSeq(history, WholeAndValid))
    /\ pc # "idle" => Len(data.lo.counter) = Len(SelectSeq(CycleFrames, WholeAndValid))

(* --------------------- the decoder on encoded frames ------------------- *)

\* a frame with given trailing bytes 32..35; byte 36 brings the sum to 0
FrameWith(counter, payload, trailing) ==
    LET body == << HEADER, counter >> \o SlotBytes(payload, 0) \o trailing
    IN  body \o << ChecksumByte(body) >>

\* counter bytes: the ends of the range, a usual one, and the header value
CodecCounters == { 0, 10, 170, 255 }

\* raw values of a slot: the ends of the signed 24-bit range, values around
\* 0 and values with bytes equal to the header
RawValues == << 0 - 8388608, 0 - 1, 0, 1, 170, 43690, 8388607 >>

\* slot j holds the (j + r)-th raw value: each slot meets each value
CodecPayload(r) ==
    [ j \in 0 .. 9 |-> RawValues[((j + r) % Len(RawValues)) + 1] ]

\* values of the bytes 32..35
Trailings == { << 0, 0, 0, 0 >>, << 1, 2, 3, 4 >>,
               << 255, 255, 255, 255 >>, << 170, 0, 86, 7 >> }

CodecInputs ==
    { << c, r, t >> : c \in CodecCounters, r \in 0 .. Len(RawValues) - 1,
                      t \in Trailings }

\* update() holds an encoded frame that read() returned on its aligned path,
\* in the first cycle after the start of the acquisition
InitCodec ==
    /\ \E x \in CodecInputs :
         /\ packet = FrameWith(x[1], CodecPayload(x[2]), x[3])
         /\ window = packet
    /\ buffer = << >>
    /\ sends = 1
    /\ pc = "parse"
    /\ queue = PACKET_SIZE
    /\ i = 0
    /\ data = EmptyData
    /\ extra = << >>
    /\ packet_count = 0
    /\ time_start \in TimeStarts
    /\ o_1024hz = NoBatch
    /\ o_256hz = NoBatch
    /\ requested = PACKET_SIZE
    /\ short = FALSE
    /\ history = << >>
    /\ cycle_mark = 0
    /\ misses = 0
    /\ emitted = [ hi |-> << >>, lo |-> << >> ]

NextCodec == Parse \/ Output

SpecCodec == InitCodec /\ [][NextCodec]_vars

\* the result of parse() for counter c and payload p
Decoded(c, p) ==
    [ ok |-> TRUE,
      counter |-> c,
      samples |-> [ ch \in {"1", "2", "3", "4"} |->
                      IF ch = "1" THEN HighRows(c, p).c1
                      ELSE IF ch = "2" THEN HighRows(c, p).c2
                      ELSE IF ch = "3" THEN LowRows(c, p).c3
                      ELSE LowRows(c, p).c4 ] ]

\* C13: a 37-byte frame encoded with header 0xAA, counter c, slot j as 3
\* big-endian two's-complement bytes at offsets 3j+2..3j+4 and trailing bytes
\* that bring the byte sum to 0 modulo 256 decodes to counter c and to the raw
\* values of slots 0,3,5,8 (channel 1), 1,4,6,9 (channel 2), 2 (channel 3)
\* and 7 (channel 4), each with the factor of its channel; the bytes 32..36
\* change nothing in the result. It is said of parse() and of the rows
\* update() holds after it.
C13_RoundTrip ==
    \A x \in CodecInputs :
      LET c == x[1]
          p == CodecPayload(x[2])
          f == FrameWith(c, p, x[3])
      IN  /\ Len(f) = PACKET_SIZE
          /\ (pc = "parse" /\ packet = f) => parse(packet) = Decoded(c, p)
          /\ (pc = "output" /\ history = << f >>)
               => /\ data.hi.counter = HighRows(c, p).counter
                  /\ data.hi.c1 = HighRows(c, p).c1
                  /\ data.hi.c2 = HighRows(c, p).c2
                  /\ data.lo.counter = LowRows(c, p).counter
                  /\ data.lo.c3 = LowRows(c, p).c3
                  /\ data.lo.c4 = LowRows(c, p).c4

\* C13 witness: update() holds the rows of a frame with counter 255, the
\* lowest raw value in slot 0 and non-zero trailing bytes
C13_Witness ==
    /\ pc = "output"
    /\ history = << FrameWith(255, CodecPayload(0), << 1, 2, 3, 4 >>) >>
    /\ data.lo.counter = << 255 >>
    /\ data.hi.c1[1] = InUV(0 - 8388608)

\* the decoded frames of the current cycle, in order
CycleOk == SelectSeq(CycleFrames, SumsToZero)

\* the rows of the a-th and of the b-th decoded packet of the cycle hold the
\* same counter and the same samples
SameRows(a, b) ==
    /\ data.lo.counter[a] = data.lo.counter[b]
    /\ data.lo.c3[a] = data.lo.c3[b]
    /\ data.lo.c4[a] = data.lo.c4[b]
    /\ \A k \in 1 .. 4 :
         /\ data.hi.counter[4 * (a - 1) + k] = data.hi.counter[4 * (b - 1) + k]
         /\ data.hi.c1[4 * (a - 1) + k] = data.hi.c1[4 * (b - 1) + k]
         /\ data.hi.c2[4 * (a - 1) + k] = data.hi.c2[4 * (b - 1) + k]

\* C14, totality: parse() does not fail on a 37-byte frame with a header and
\* a valid checksum, and gives 4, 4, 1 and 1 samples
C14_Total ==
    (pc = "parse" /\ Len(packet) = PACKET_SIZE /\ packet[1] = HEADER
       /\ SumsToZero(packet))
    => LET r == parse(packet)
       IN  /\ r.ok
           /\ Len(r.samples["1"]) = 4 /\ Len(r.samples["2"]) = 4
           /\ Len(r.samples["3"]) = 1 /\ Len(r.samples["4"]) = 1

\* C14, determinism: two decoded packets of a cycle with the same bytes give
\* the same counter and samples, whatever packet_count was and whatever was
\* parsed before them
C14_SameBytesSameRows ==
    Len(data.lo.counter) = Len(CycleOk)
    => \A a, b \in 1 .. Len(CycleOk) :
         CycleOk[a] = CycleOk[b] => SameRows(a, b)

\* C14, the clock: over the pass that parses a packet time_start is unchanged
\* and packet_count changes by the one increment of update() after a parse
\* that returned, by nothing else
C14_Step ==
    (pc = "parse" /\ pc' # "parse")
    => /\ time_start' = time_start
       /\ packet_count' = packet_count + (IF SumsToZero(packet) THEN 1 ELSE 0)

\* C14: on every 37-byte frame with a valid header and a valid checksum
\* parse() does not fail and is deterministic: its result depends on the
\* bytes of the frame only, not on packet_count, time_start or earlier frames,
\* and parse changes neither packet_count nor time_start.
C14_ParseDeterministic ==
    [] (C14_Total /\ C14_SameBytesSameRows) /\ [][C14_Step]_vars

\* C14 witness: a cycle decoded the same valid frame twice, at two values of
\* packet_count
C14_Witness ==
    /\ pc = "output"
    /\ CycleFrames = << Frame(10, PayloadA), Frame(10, PayloadA) >>
    /\ Len(data.lo.counter) = 2
    /\ data.lo.index[1] # data.lo.index[2]

(* ------------------ a damaged stream, then valid frames ----------------- *)

\* what a run of dropped, shifted or garbage bytes leaves in front of the
\* next frame: garbage without and with a marker, a frame that lost its last
\* 4 bytes, a frame that lost its first 4 bytes
Damages ==
    { Garbage(1), Garbage(PACKET_SIZE - 1), GarbageWithMarker,
      Slice(Frame(10, PayloadA), 0, PACKET_SIZE - 4),
      Slice(Frame(12, PayloadA), 4, PACKET_SIZE) }

\* the damage, then three back-to-back valid frames
ResyncStreams ==
    { d \o f1 \o f2 \o f3 : d \in Damages, f1 \in ValidFrames,
                            f2 \in ValidFrames, f3 \in ValidFrames }

\* the receive queue holds a damaged stream followed by valid frames when
\* the first cycle begins; the device delivers nothing more
InitResync ==
    /\ buffer \in ResyncStreams
    /\ sends = MaxSends
    /\ pc = "idle"
    /\ queue = 0
    /\ i = 0
    /\ data = EmptyData
    /\ window = << >>
    /\ extra = << >>
    /\ packet = << >>
    /\ packet_count = 0
    /\ time_start \in TimeStarts
    /\ o_1024hz = NoBatch
    /\ o_256hz = NoBatch
    /\ requested = 0
    /\ short = FALSE
    /\ history = << >>
    /\ cycle_mark = 0
    /\ misses = 0
    /\ emitted = [ hi |-> << >>, lo |-> << >> ]

NextResync == UpdateBegin \/ ReadWindow \/ Refill \/ Parse \/ Output

\* update() keeps being called and a called update() goes on
SpecResync == InitResync /\ [][NextResync]_vars /\ WF_vars(NextResync)

\* a packet that is one of the frames of the stream, cut on its boundaries
AlignedFrame(f) == f \in ValidFrames

\* a read() has returned an aligned frame and update() has decoded it
HasResynchronized ==
    \E a \in 1 .. Len(history) : AlignedFrame(history[a])

\* after the first aligned frame every whole frame read is aligned
StaysSynchronized ==
    \A a, b \in 1 .. Len(history) :
      (a < b /\ AlignedFrame(history[a]) /\ Len(history[b]) = PACKET_SIZE)
      => AlignedFrame(history[b])

LeastMarker(st) ==
    CHOOSE k \in 0 .. Len(st) - 1 :
      st[k + 1] = HEADER /\ \A j \in 0 .. k - 1 : st[j + 1] # HEADER

\* C16, a returned frame: a read() that got every byte it requested took
\* 37 + k bytes from the stream, k the offset of the first marker of its
\* window (k = 0: the aligned window, no second read), and returned the 37
\* stream bytes that start at that marker
C16_Returned ==
    (pc = "parse" /\ ~short)
    => LET k == LeastMarker(StreamAtRead)
       IN  /\ k < PACKET_SIZE
           /\ Len(window \o extra) = PACKET_SIZE + k
           /\ k = 0 => extra = << >>
           /\ packet = SubSeq(StreamAtRead, k + 1, k + PACKET_SIZE)

\* C16, the transport: the bytes a device.read returns are the first bytes
\* of the receive queue and the others stay, in order, for the next read; a
\* full window without a marker takes 37 bytes, returns no frame and ends
\* the pass
C16_Step ==
    /\ (pc = "read" /\ requested' # requested)
         => /\ buffer = window' \o buffer'
            /\ requested' = requested + PACKET_SIZE
            /\ (~short' /\ NoMarker(window'))
                 => /\ Len(window') = PACKET_SIZE
                    /\ packet' = << >>
                    /\ history' = history
                    /\ pc' \in {"read", "output"}
    /\ (pc = "refill" /\ pc' = "parse")
         => /\ buffer = extra' \o buffer'
            /\ requested' = requested + LeastMarker(window)

\* C16: when the transport delivers every requested byte, read() consumes 37
\* bytes on an aligned window, 37 + k bytes when the first marker is at
\* offset k > 0 (and returns the 37 stream bytes from that marker on), and 37
\* bytes and no frame on a window without a marker; no byte is read twice and
\* the next read() starts right after the bytes taken.
C16_StreamConsumption == [] C16_Returned /\ [][C16_Step]_vars

\* C16 witness: a read() found its first marker at offset 2, got every byte
\* and returned a frame of the device
C16_Witness ==
    /\ pc = "parse"
    /\ ~short
    /\ Len(extra) = 2
    /\ packet \in ValidFrames

\* C17: every frame update() passes to parse() starts with the header marker
\* 0xAA, from the aligned path and from the rescan path alike, and is 37
\* bytes long when the transport delivered every requested byte.
C17_FramesStartWithHeader ==
    /\ pc = "parse"
         => /\ packet # << >>
            /\ packet[1] = HEADER
            /\ ~short => Len(packet) = PACKET_SIZE
    /\ \A a \in 1 .. Len(history) : history[a][1] = HEADER

\* C17 witness: a frame from the rescan path, read in full, is at parse()
C17_Witness ==
    /\ pc = "parse"
    /\ extra # << >>
    /\ ~short
    /\ Len(packet) = PACKET_SIZE
    /\ packet[1] = HEADER

====
